---- MODULE Spec2Model ----
(***************************************************************************)
(* A model of qute (src/src/main.rs): a discrete-event simulation of a     *)
(* single-stage queue.  An EventMessageQueue holds Arrive / CallToServe /  *)
(* Exit messages ordered by time, `step` pops one message, hands it to     *)
(* `handle_message`, sets the state's time, pushes the follow-up messages  *)
(* and appends the events to the EventLog.                                 *)
(*                                                                         *)
(* Every number of the program is a u32.  A u32 is modelled exactly, as a  *)
(* pair of 16-bit limbs [hi, lo] (value hi * 2^16 + lo), with the carry    *)
(* and the borrow of `+` and `-` computed as the hardware computes them.   *)
(* An overflowing `+` or `-` panics when the build has overflow checks     *)
(* (cargo's dev profile) and wraps when it has none (the release profile): *)
(* the variable overflow_checks is the profile the program was built with. *)
(***************************************************************************)
EXTENDS Integers, Sequences, FiniteSets

(***************************************************************************)
(* Bounds of the model.                                                    *)
(***************************************************************************)
\* the largest buffer_capacity / server_capacity that main passes to new
MaxCapacity == 2
\* the largest server_duration that main passes to new
MaxDuration == 1
\* the largest number of Arrive messages that main seeds
MaxSeed == 3
\* the seeded times are 0 .. MaxEarly and u32::MAX
MaxEarly == 0
\* the largest number of push / pop calls of the queue harness
MaxOps == 4
\* the queue harness pushes messages of the times 0 .. MaxHarnessTime
MaxHarnessTime == 1

(***************************************************************************)
(* u32 arithmetic (struct Time(u32) and the u32 fields).                   *)
(***************************************************************************)
Limb == 65536

U32 == [hi : 0 .. Limb - 1, lo : 0 .. Limb - 1]

\* the u32 of a small natural number
N(n) == [hi |-> 0, lo |-> n]

Zero == N(0)
One == N(1)
U32Max == [hi |-> Limb - 1, lo |-> Limb - 1]

\* a < b and a <= b of u32 (derive(Ord, PartialOrd) of Time)
Lt(a, b) == a.hi < b.hi \/ (a.hi = b.hi /\ a.lo < b.lo)
Le(a, b) == a = b \/ Lt(a, b)

\* a + b of u32: the wrapped sum and whether the true sum needs 33 bits
AddU32(a, b) ==
  LET lo == a.lo + b.lo
      hi == a.hi + b.hi + (lo \div Limb)
  IN  [val |-> [hi |-> hi % Limb, lo |-> lo % Limb], overflow |-> hi >= Limb]

\* a - b of u32: the wrapped difference and whether the true one is negative
SubU32(a, b) ==
  LET lo == a.lo - b.lo
      borrow == IF lo < 0 THEN 1 ELSE 0
      hi == a.hi - b.hi - borrow
  IN  [val |-> [hi |-> hi % Limb, lo |-> lo % Limb], overflow |-> hi < 0]

(***************************************************************************)
(* QueueState.                                                             *)
(***************************************************************************)
QueueState_new(buffer_capacity, server_capacity, server_duration) ==
  [time |-> Zero,
   buffer_count |-> Zero,
   buffer_capacity |-> buffer_capacity,
   server_count |-> Zero,
   server_capacity |-> server_capacity,
   server_duration |-> server_duration]

\* set_time that leaves the time as it is
set_time_Kept(qs, time) == qs

set_time(qs, time) == [qs EXCEPT !.time = time]

\* the mutators: the new state, and whether the += 1 / -= 1 overflowed
inc_buffer(qs) ==
  [qs |-> [qs EXCEPT !.buffer_count = AddU32(@, One).val],
   overflow |-> AddU32(qs.buffer_count, One).overflow]

dec_buffer(qs) ==
  [qs |-> [qs EXCEPT !.buffer_count = SubU32(@, One).val],
   overflow |-> SubU32(qs.buffer_count, One).overflow]

inc_server(qs) ==
  [qs |-> [qs EXCEPT !.server_count = AddU32(@, One).val],
   overflow |-> AddU32(qs.server_count, One).overflow]

dec_server(qs) ==
  [qs |-> [qs EXCEPT !.server_count = SubU32(@, One).val],
   overflow |-> SubU32(qs.server_count, One).overflow]

\* can_buffer with <= for <: the buffer takes one item too many
can_buffer_OffByOne(qs) == Le(qs.buffer_count, qs.buffer_capacity)

can_buffer(qs) == Lt(qs.buffer_count, qs.buffer_capacity)

can_serve(qs) ==
  Lt(Zero, qs.buffer_count) /\ Lt(qs.server_count, qs.server_capacity)

(***************************************************************************)
(* EventMessage and EventMessageQueue.                                     *)
(***************************************************************************)
EventMessageType == {"Arrive", "CallToServe", "Exit"}

EventMessage(type, time) == [event_message_type |-> type, time |-> time]

\* Option::None
None == [none |-> TRUE]

\* the sort without Reverse: smallest time first, so that pop returns the
\* latest message
sort_by_key_NotReversed(v) ==
  LET rank(i) ==
        Cardinality({j \in DOMAIN v : Lt(v[j].time, v[i].time)})
          + Cardinality({j \in 1 .. i - 1 : v[j].time = v[i].time}) + 1
  IN  [k \in DOMAIN v |-> v[CHOOSE i \in DOMAIN v : rank(i) = k]]

\* the sort with the elements of equal key in the reverse of their order in
\* v, as a sort that is not stable may leave them
sort_by_key_TiesReversed(v) ==
  LET rank(i) ==
        Cardinality({j \in DOMAIN v : Lt(v[i].time, v[j].time)})
          + Cardinality({j \in i + 1 .. Len(v) : v[j].time = v[i].time}) + 1
  IN  [k \in DOMAIN v |-> v[CHOOSE i \in DOMAIN v : rank(i) = k]]

\* Vec::sort_by_key(|e| Reverse(e.time)): a stable sort on the key
\* Reverse(time).  The element at position i of v goes behind the elements
\* of smaller key (of larger time) and, the sort being stable, behind the
\* elements of equal key that precede it in v.
sort_by_key_Reverse(v) ==
  LET rank(i) ==
        Cardinality({j \in DOMAIN v : Lt(v[i].time, v[j].time)})
          + Cardinality({j \in 1 .. i - 1 : v[j].time = v[i].time}) + 1
  IN  [k \in DOMAIN v |-> v[CHOOSE i \in DOMAIN v : rank(i) = k]]

EventMessageQueue_new == [messages |-> <<>>, size |-> Zero]

emq_push(q, message) ==
  [messages |-> sort_by_key_Reverse(Append(q.messages, message)),
   size |-> AddU32(q.size, One).val]

\* the message Vec::pop returns (the last one), or None
emq_pop_message(q) ==
  IF q.messages = <<>> THEN None ELSE q.messages[Len(q.messages)]

\* pop with `self.size -= 1` outside the `if let`: it counts down also when
\* there is nothing to pop, and the u32 wraps
emq_pop_AlwaysCounts(q) ==
  IF q.messages = <<>> THEN [q EXCEPT !.size = SubU32(@, One).val]
  ELSE [messages |-> SubSeq(q.messages, 1, Len(q.messages) - 1),
        size |-> SubU32(q.size, One).val]

\* the queue after pop
emq_pop(q) ==
  IF q.messages = <<>> THEN q
  ELSE [messages |-> SubSeq(q.messages, 1, Len(q.messages) - 1),
        size |-> SubU32(q.size, One).val]

(***************************************************************************)
(* Event and EventLog.                                                     *)
(***************************************************************************)
EventType ==
  {"BufferIncremented", "BufferDecremented",
   "ServerIncremented", "ServerDecremented"}

Event(type, time) == [time |-> time, event_type |-> type]

EventLog_new == [contents |-> <<>>, size |-> Zero]

\* push that inserts the event at the head of the log
log_push_AtHead(log, event) ==
  [contents |-> <<event>> \o log.contents,
   size |-> AddU32(log.size, One).val]

log_push(log, event) ==
  [contents |-> Append(log.contents, event),
   size |-> AddU32(log.size, One).val]

\* iter().fold(acc, |acc, &x| acc.push(x)) of step
RECURSIVE fold_emq_push(_, _)
fold_emq_push(q, ms) ==
  IF ms = <<>> THEN q ELSE fold_emq_push(emq_push(q, Head(ms)), Tail(ms))

RECURSIVE fold_log_push(_, _)
fold_log_push(log, es) ==
  IF es = <<>> THEN log ELSE fold_log_push(log_push(log, Head(es)), Tail(es))

(***************************************************************************)
(* handle_message.  The result is the tuple the function returns plus      *)
(* panic: whether the call panicked ("attempt to add / subtract with       *)
(* overflow") instead of returning.  The elements of the returned tuple    *)
(* are evaluated left to right, so the state is mutated before the Exit    *)
(* time is added up; when the call panics, queue_state is the state as the *)
(* mutators that ran before the panic left it.                             *)
(***************************************************************************)
Returned(qs, event_messages, events) ==
  [queue_state |-> qs, event_messages |-> event_messages,
   events |-> events, panic |-> FALSE]

Panicked(qs) ==
  [queue_state |-> qs, event_messages |-> <<>>, events |-> <<>>,
   panic |-> TRUE]

\* handle_message for Arrive without the follow-up CallToServe
handle_Arrive_NoFollowUp(event_message, qs, checks) ==
  IF can_buffer(qs)
  THEN LET b == inc_buffer(qs)
       IN  IF checks /\ b.overflow THEN Panicked(qs)
           ELSE Returned(b.qs, <<>>,
                         <<Event("BufferIncremented", event_message.time)>>)
  ELSE Returned(qs, <<>>, <<>>)

\* handle_message for Arrive that calls to serve also when it refuses the
\* item
handle_Arrive_AlwaysCalls(event_message, qs, checks) ==
  IF can_buffer(qs)
  THEN LET b == inc_buffer(qs)
       IN  IF checks /\ b.overflow THEN Panicked(qs)
           ELSE Returned(b.qs,
                         <<EventMessage("CallToServe", event_message.time)>>,
                         <<Event("BufferIncremented", event_message.time)>>)
  ELSE Returned(qs, <<EventMessage("CallToServe", event_message.time)>>, <<>>)

handle_Arrive(event_message, qs, checks) ==
  IF can_buffer(qs)
  THEN LET b == inc_buffer(qs)
       IN  IF checks /\ b.overflow THEN Panicked(qs)
           ELSE Returned(b.qs,
                         <<EventMessage("CallToServe", event_message.time)>>,
                         <<Event("BufferIncremented", event_message.time)>>)
  ELSE Returned(qs, <<>>, <<>>)

\* handle_message for CallToServe that takes a server without scheduling
\* its Exit
handle_CallToServe_NoExit(event_message, qs, checks) ==
  IF can_serve(qs)
  THEN LET b == dec_buffer(qs)
           s == inc_server(b.qs)
       IN  IF checks /\ b.overflow THEN Panicked(qs)
           ELSE IF checks /\ s.overflow THEN Panicked(b.qs)
           ELSE Returned(s.qs, <<>>,
                         <<Event("BufferDecremented", event_message.time),
                           Event("ServerIncremented", event_message.time)>>)
  ELSE Returned(qs, <<>>, <<>>)

handle_CallToServe(event_message, qs, checks) ==
  IF can_serve(qs)
  THEN LET server_duration == qs.server_duration
           b == dec_buffer(qs)
           s == inc_server(b.qs)
           exit_time == AddU32(event_message.time, server_duration)
       IN  IF checks /\ b.overflow THEN Panicked(qs)
           ELSE IF checks /\ s.overflow THEN Panicked(b.qs)
           ELSE IF checks /\ exit_time.overflow THEN Panicked(s.qs)
           ELSE Returned(s.qs,
                         <<EventMessage("Exit", exit_time.val)>>,
                         <<Event("BufferDecremented", event_message.time),
                           Event("ServerIncremented", event_message.time)>>)
  ELSE Returned(qs, <<>>, <<>>)

\* handle_message for Exit without the follow-up CallToServe
handle_Exit_NoFollowUp(event_message, qs, checks) ==
  LET s == dec_server(qs)
  IN  IF checks /\ s.overflow THEN Panicked(qs)
      ELSE Returned(s.qs, <<>>,
                    <<Event("ServerDecremented", event_message.time)>>)

\* handle_message for Exit that logs the event but leaves the server taken
handle_Exit_ServerKept(event_message, qs, checks) ==
  Returned(qs,
           <<EventMessage("CallToServe", event_message.time)>>,
           <<Event("ServerDecremented", event_message.time)>>)

handle_Exit(event_message, qs, checks) ==
  LET s == dec_server(qs)
  IN  IF checks /\ s.overflow THEN Panicked(qs)
      ELSE Returned(s.qs,
                    <<EventMessage("CallToServe", event_message.time)>>,
                    <<Event("ServerDecremented", event_message.time)>>)

handle_message(event_message, qs, checks) ==
  CASE event_message.event_message_type = "Arrive" ->
         handle_Arrive(event_message, qs, checks)
    [] event_message.event_message_type = "CallToServe" ->
         handle_CallToServe(event_message, qs, checks)
    [] event_message.event_message_type = "Exit" ->
         handle_Exit(event_message, qs, checks)

(***************************************************************************)
(* The state of a run.                                                     *)
(***************************************************************************)
VARIABLES
  emq,              \* the EventMessageQueue
  queue_state,      \* the QueueState
  event_log,        \* the EventLog
  pc,               \* where the driver is: "seed" (priming the queue),
                    \* "run" (in the while loop), "done" (step returned
                    \* None), "panicked" (the process aborted), "harness"
                    \* (the queue is driven by push and pop calls alone)
  overflow_checks,  \* the build panics on u32 overflow (TRUE) or wraps
  popped,           \* history: what the last pop returned, None at first
  stamps,           \* history: for each position of emq.messages, the
                    \* time of the message and the number of the push that
                    \* inserted it
  pushed,           \* history: the times of the messages pushed from
                    \* outside step (by main or by the harness), in order
  op,               \* history: the last call, "new", "push", "pop" or "step"
  ops               \* history: the number of calls so far

vars ==
  <<emq, queue_state, event_log, pc, overflow_checks, popped, stamps, pushed,
    op, ops>>

\* the times main may seed: the first ones and the last one of the u32 range
Times == {N(n) : n \in 0 .. MaxEarly} \cup {U32Max}

Capacities == {N(n) : n \in 0 .. MaxCapacity}
Durations == {N(n) : n \in 0 .. MaxDuration}

Stamp(time, n) == [time |-> time, id |-> n]

\* the history of a push: stamps is sorted as the messages are
StampPush(st, time, n) == sort_by_key_Reverse(Append(st, Stamp(time, n)))

RECURSIVE StampPushAll(_, _, _)
StampPushAll(st, ms, n) ==
  IF ms = <<>> THEN st
  ELSE StampPushAll(StampPush(st, Head(ms).time, n), Tail(ms), n + 1)

StampPop(st) == IF st = <<>> THEN st ELSE SubSeq(st, 1, Len(st) - 1)

\* main, up to the while loop: QueueState::new, EventMessageQueue::new,
\* EventLog::new
Init ==
  /\ emq = EventMessageQueue_new
  /\ \E bc \in Capacities, sc \in Capacities, sd \in Durations :
       queue_state = QueueState_new(bc, sc, sd)
  /\ event_log = EventLog_new
  /\ pc = "seed"
  /\ overflow_checks \in BOOLEAN
  /\ popped = None
  /\ stamps = <<>>
  /\ pushed = <<>>
  /\ op = "new"
  /\ ops = 0

\* main primes the queue with one more Arrive message
Seed(t) ==
  /\ pc = "seed"
  /\ Len(emq.messages) < MaxSeed
  /\ emq' = emq_push(emq, EventMessage("Arrive", t))
  /\ stamps' = StampPush(stamps, t, ops)
  /\ pushed' = Append(pushed, t)
  /\ op' = "push"
  /\ ops' = ops + 1
  /\ UNCHANGED <<queue_state, event_log, pc, overflow_checks, popped>>

\* one call of step that pops a message
Step ==
  /\ pc \in {"seed", "run"}
  /\ emq.messages # <<>>
  /\ LET event_message == emq_pop_message(emq)
         q == emq_pop(emq)
         h == handle_message(event_message, queue_state, overflow_checks)
     IN  /\ popped' = event_message
         /\ IF h.panic
            THEN /\ pc' = "panicked"
                 /\ emq' = q
                 /\ queue_state' = h.queue_state
                 /\ event_log' = event_log
                 /\ stamps' = StampPop(stamps)
            ELSE /\ pc' = "run"
                 /\ queue_state' = set_time(h.queue_state, event_message.time)
                 /\ emq' = fold_emq_push(q, h.event_messages)
                 /\ event_log' = fold_log_push(event_log, h.events)
                 /\ stamps' = StampPushAll(StampPop(stamps),
                                           h.event_messages, ops)
  /\ op' = "step"
  /\ ops' = ops + 1
  /\ UNCHANGED <<overflow_checks, pushed>>

\* the call of step that finds the queue empty: it returns None and the
\* while loop of main ends
StepNone ==
  /\ pc \in {"seed", "run"}
  /\ emq.messages = <<>>
  /\ pc' = "done"
  /\ popped' = None
  /\ op' = "step"
  /\ ops' = ops + 1
  /\ UNCHANGED <<emq, queue_state, event_log, overflow_checks, stamps, pushed>>

Next == (\E t \in Times : Seed(t)) \/ Step \/ StepNone

Spec == Init /\ [][Next]_vars

\* the driver loop keeps calling step as long as it returns Some
FairSpec == Spec /\ WF_vars(Next)

(***************************************************************************)
(* main as it is written: QueueState::new(5, 2, 10) and the arrivals       *)
(* (0..n_arrivals) pushed in this order.  n_arrivals is 10; main's comment *)
(* invites to change it, and the runs with fewer arrivals are those that   *)
(* start stepping before the tenth push.                                   *)
(***************************************************************************)
main_buffer_capacity == 5
main_server_capacity == 2
main_server_duration == 10
n_arrivals == 10

InitMain ==
  /\ emq = EventMessageQueue_new
  /\ queue_state = QueueState_new(N(main_buffer_capacity),
                                  N(main_server_capacity),
                                  N(main_server_duration))
  /\ event_log = EventLog_new
  /\ pc = "seed"
  /\ overflow_checks \in BOOLEAN
  /\ popped = None
  /\ stamps = <<>>
  /\ pushed = <<>>
  /\ op = "new"
  /\ ops = 0

\* the next message of (0..n_arrivals).map(..).fold(emq, push)
SeedMain ==
  /\ pc = "seed"
  /\ Len(pushed) < n_arrivals
  /\ LET t == N(Len(pushed))
     IN  /\ emq' = emq_push(emq, EventMessage("Arrive", t))
         /\ stamps' = StampPush(stamps, t, ops)
         /\ pushed' = Append(pushed, t)
  /\ op' = "push"
  /\ ops' = ops + 1
  /\ UNCHANGED <<queue_state, event_log, pc, overflow_checks, popped>>

NextMain == SeedMain \/ Step \/ StepNone

SpecMain == InitMain /\ [][NextMain]_vars

(***************************************************************************)
(* The queue on its own, driven by arbitrary push and pop calls as in      *)
(* tests::test_emq_mechanics.                                              *)
(***************************************************************************)
HarnessTimes == {N(n) : n \in 0 .. MaxHarnessTime}

InitEMQ ==
  /\ emq = EventMessageQueue_new
  /\ queue_state = QueueState_new(Zero, Zero, Zero)
  /\ event_log = EventLog_new
  /\ pc = "harness"
  /\ overflow_checks = TRUE
  /\ popped = None
  /\ stamps = <<>>
  /\ pushed = <<>>
  /\ op = "new"
  /\ ops = 0

EmqPush(type, t) ==
  /\ pc = "harness"
  /\ ops < MaxOps
  /\ emq' = emq_push(emq, EventMessage(type, t))
  /\ stamps' = StampPush(stamps, t, ops)
  /\ pushed' = Append(pushed, t)
  /\ op' = "push"
  /\ ops' = ops + 1
  /\ UNCHANGED <<queue_state, event_log, pc, overflow_checks, popped>>

EmqPop ==
  /\ pc = "harness"
  /\ ops < MaxOps
  /\ popped' = emq_pop_message(emq)
  /\ emq' = emq_pop(emq)
  /\ stamps' = StampPop(stamps)
  /\ op' = "pop"
  /\ ops' = ops + 1
  /\ UNCHANGED <<queue_state, event_log, pc, overflow_checks, pushed>>

NextEMQ ==
  (\E type \in EventMessageType, t \in HarnessTimes : EmqPush(type, t)) \/ EmqPop

SpecEMQ == InitEMQ /\ [][NextEMQ]_vars

(***************************************************************************)
(* Vocabulary of the properties.                                           *)
(***************************************************************************)
\* the number of positions of the sequence seq that hold x
Count(seq, x) == Cardinality({i \in DOMAIN seq : seq[i] = x})

Elements(seq) == {seq[i] : i \in DOMAIN seq}

\* the sequence `after` holds what `before` holds, less one removed and
\* plus the ones of the sequence added
SameButFor(before, after, removed, added) ==
  \A x \in Elements(before) \cup Elements(after) \cup Elements(added) \cup {removed} :
    Count(after, x) =
      Count(before, x) - (IF x = removed THEN 1 ELSE 0) + Count(added, x)

\* this transition is a call of step that popped a message
SteppedOn(type) ==
  /\ op' = "step"
  /\ ops' = ops + 1
  /\ popped' # None
  /\ popped'.event_message_type = type

\* this transition is a call of pop by the queue harness
Pops == op' = "pop" /\ ops' = ops + 1

\* the number of events of a type in the log
Logged(type) ==
  Cardinality({i \in DOMAIN event_log.contents :
                 event_log.contents[i].event_type = type})

(***************************************************************************)
(* C1: in every state of a run seeded with Arrive messages only,           *)
(* 0 <= buffer_count <= buffer_capacity and                                *)
(* 0 <= server_count <= server_capacity.                                   *)
(***************************************************************************)
C1_CountsWithinCapacity ==
  /\ Le(Zero, queue_state.buffer_count)
  /\ Le(queue_state.buffer_count, queue_state.buffer_capacity)
  /\ Le(Zero, queue_state.server_count)
  /\ Le(queue_state.server_count, queue_state.server_capacity)

\* the buffer and the servers are both full, and an arrival was just refused
C1_Witness ==
  /\ op = "step"
  /\ popped # None
  /\ popped.event_message_type = "Arrive"
  /\ queue_state.buffer_count = queue_state.buffer_capacity
  /\ queue_state.server_count = queue_state.server_capacity
  /\ Lt(Zero, queue_state.buffer_capacity)
  /\ Lt(Zero, queue_state.server_capacity)
  /\ Len(event_log.contents) >= 4

(***************************************************************************)
(* C2: across consecutive step calls state.time is non-decreasing: no step *)
(* sets a time smaller than the time the state had before it.              *)
(***************************************************************************)
C2_TimeNonDecreasing == [][Le(queue_state.time, queue_state'.time)]_vars

(***************************************************************************)
(* C3: pop on a non-empty queue removes and returns a message whose time   *)
(* is the smallest of all pending messages (so that repeated pops come in  *)
(* non-decreasing time order); pop on an empty queue returns None.         *)
(***************************************************************************)
C3_PopReturnsEarliest ==
  [][Pops =>
       IF emq.messages = <<>>
       THEN popped' = None /\ emq'.messages = <<>>
       ELSE /\ popped' \in Elements(emq.messages)
            /\ \A m \in Elements(emq.messages) : Le(popped'.time, m.time)
            /\ Len(emq'.messages) = Len(emq.messages) - 1
            /\ SameButFor(emq.messages, emq'.messages, popped', <<>>)]_vars

\* a pop has returned a message while a later message, pushed before it,
\* and a message of the same time stay pending
C3_Witness ==
  /\ op = "pop"
  /\ popped # None
  /\ \E i, j \in DOMAIN emq.messages :
       /\ Lt(popped.time, emq.messages[i].time)
       /\ emq.messages[j].time = popped.time

\* a pop has found the queue empty
C3_WitnessEmpty == op = "pop" /\ popped = None /\ ops >= 2

(***************************************************************************)
(* C4 as stated: among pending messages of equal time the one pushed       *)
(* earlier is popped earlier (first in, first out): the message a pop      *)
(* returns was pushed before every pending message of the same time.       *)
(***************************************************************************)
C4_TiesFirstInFirstOut ==
  [][(Pops /\ stamps # <<>>) =>
       /\ popped'.time = stamps[Len(stamps)].time
       /\ \A i \in 1 .. Len(stamps) - 1 :
            stamps[i].time = stamps[Len(stamps)].time
              => stamps[Len(stamps)].id < stamps[i].id]_vars

(***************************************************************************)
(* C4 as amended: among pending messages of equal time the one pushed      *)
(* later is popped earlier (last in, first out): the message a pop returns *)
(* was pushed after every pending message of the same time.                *)
(***************************************************************************)
C4_TiesLastInFirstOut ==
  [][(Pops /\ stamps # <<>>) =>
       /\ popped' = emq.messages[Len(emq.messages)]
       /\ Len(stamps) = Len(emq.messages)
       /\ \A i \in DOMAIN stamps : stamps[i].time = emq.messages[i].time
       /\ \A i \in 1 .. Len(stamps) - 1 :
            stamps[i].time = stamps[Len(stamps)].time
              => stamps[Len(stamps)].id > stamps[i].id]_vars

\* a pop has returned a message while a message of the same time that was
\* pushed before it, and before a third message, stays pending
C4_Witness ==
  /\ op = "pop"
  /\ popped # None
  /\ ops >= 4
  /\ \E i \in DOMAIN stamps :
       /\ stamps[i].time = popped.time
       /\ stamps[i].id = 0

(***************************************************************************)
(* C5: when step pops Arrive@t and can_buffer() holds, buffer_count grows  *)
(* by exactly 1, server_count is unchanged, exactly one follow-up          *)
(* CallToServe@t is pushed and exactly one event BufferIncremented@t is    *)
(* appended to the log.                                                    *)
(***************************************************************************)
C5_ArriveAccepted ==
  [][(SteppedOn("Arrive") /\ can_buffer(queue_state)) =>
       /\ pc' = "run"
       /\ ~AddU32(queue_state.buffer_count, One).overflow
       /\ queue_state'.buffer_count = AddU32(queue_state.buffer_count, One).val
       /\ queue_state'.server_count = queue_state.server_count
       /\ Len(emq'.messages) = Len(emq.messages)
       /\ SameButFor(emq.messages, emq'.messages, popped',
                     <<EventMessage("CallToServe", popped'.time)>>)
       /\ event_log'.contents =
            Append(event_log.contents,
                   Event("BufferIncremented", popped'.time))]_vars

\* an Arrive was just accepted: its CallToServe is pending and its event is
\* the last one of the log
C5_Witness ==
  /\ op = "step"
  /\ popped # None
  /\ popped.event_message_type = "Arrive"
  /\ EventMessage("CallToServe", popped.time) \in Elements(emq.messages)
  /\ event_log.contents # <<>>
  /\ event_log.contents[Len(event_log.contents)] =
       Event("BufferIncremented", popped.time)
  /\ Lt(One, queue_state.buffer_count)

(***************************************************************************)
(* C6: when step pops CallToServe@t and can_serve() holds, buffer_count    *)
(* drops by exactly 1, server_count grows by exactly 1, exactly one        *)
(* follow-up Exit@(t + server_duration) is pushed and the log gains        *)
(* exactly BufferDecremented@t then ServerIncremented@t.                   *)
(***************************************************************************)
C6_CallToServeServes ==
  [][(SteppedOn("CallToServe") /\ can_serve(queue_state)) =>
       /\ pc' = "run"
       /\ queue_state'.buffer_count = SubU32(queue_state.buffer_count, One).val
       /\ queue_state'.server_count = AddU32(queue_state.server_count, One).val
       /\ ~AddU32(popped'.time, queue_state.server_duration).overflow
       /\ Len(emq'.messages) = Len(emq.messages)
       /\ SameButFor(emq.messages, emq'.messages, popped',
                     <<EventMessage("Exit",
                         AddU32(popped'.time, queue_state.server_duration).val)>>)
       /\ event_log'.contents =
            event_log.contents \o
              <<Event("BufferDecremented", popped'.time),
                Event("ServerIncremented", popped'.time)>>]_vars

(***************************************************************************)
(* C7: when step pops Exit@t, server_count drops by exactly 1,             *)
(* buffer_count is unchanged, exactly one follow-up CallToServe@t is       *)
(* pushed and exactly one event ServerDecremented@t is appended.           *)
(***************************************************************************)
C7_ExitFreesServer ==
  [][SteppedOn("Exit") =>
       /\ pc' = "run"
       /\ ~SubU32(queue_state.server_count, One).overflow
       /\ queue_state'.server_count = SubU32(queue_state.server_count, One).val
       /\ queue_state'.buffer_count = queue_state.buffer_count
       /\ Len(emq'.messages) = Len(emq.messages)
       /\ SameButFor(emq.messages, emq'.messages, popped',
                     <<EventMessage("CallToServe", popped'.time)>>)
       /\ event_log'.contents =
            Append(event_log.contents,
                   Event("ServerDecremented", popped'.time))]_vars

\* an Exit was just handled while another item was in service and one was
\* waiting: its CallToServe is pending and its event is the last of the log
C7_Witness ==
  /\ op = "step"
  /\ popped # None
  /\ popped.event_message_type = "Exit"
  /\ EventMessage("CallToServe", popped.time) \in Elements(emq.messages)
  /\ event_log.contents[Len(event_log.contents)] =
       Event("ServerDecremented", popped.time)
  /\ queue_state.server_count = One
  /\ queue_state.buffer_count = One

(***************************************************************************)
(* C8: when step pops an Arrive whose guard can_buffer() is false, or a    *)
(* CallToServe whose guard can_serve() is false, only state.time changes   *)
(* (to the popped message's time): the counts are unchanged, nothing is    *)
(* pushed (the queue shrinks by exactly the popped message) and the log is *)
(* unchanged.                                                              *)
(***************************************************************************)
C8_GuardFailureIsNoOp ==
  [][(\/ SteppedOn("Arrive") /\ ~can_buffer(queue_state)
      \/ SteppedOn("CallToServe") /\ ~can_serve(queue_state)) =>
       /\ pc' = "run"
       /\ queue_state' = [queue_state EXCEPT !.time = popped'.time]
       /\ popped' = emq.messages[Len(emq.messages)]
       /\ emq'.messages = SubSeq(emq.messages, 1, Len(emq.messages) - 1)
       /\ event_log' = event_log]_vars

\* an Arrive was just refused by a full buffer, at a time later than the
\* previous step's: nothing is in the log that the refusal could have put
\* there and no CallToServe is pending
C8_WitnessArrive ==
  /\ op = "step"
  /\ popped # None
  /\ popped.event_message_type = "Arrive"
  /\ queue_state.buffer_count = queue_state.buffer_capacity
  /\ queue_state.time = popped.time
  /\ \A i \in DOMAIN event_log.contents :
       Lt(event_log.contents[i].time, popped.time)
  /\ event_log.contents # <<>>

\* a CallToServe was just refused because every server is busy while an
\* item waits
C8_Witness ==
  /\ op = "step"
  /\ popped # None
  /\ popped.event_message_type = "CallToServe"
  /\ Lt(Zero, queue_state.buffer_count)
  /\ queue_state.server_count = queue_state.server_capacity
  /\ queue_state.time = popped.time
  /\ event_log.contents[Len(event_log.contents)].event_type =
       "BufferIncremented"

(***************************************************************************)
(* C9: for every batch of seeded Arrive messages and every choice of the   *)
(* capacities and of server_duration >= 0, repeated step calls eventually  *)
(* reach an empty queue, where step returns None.                          *)
(***************************************************************************)
C9_RunReachesEmptyQueue == <>(pc = "done" /\ emq.messages = <<>>)

(***************************************************************************)
(* C10: if server_capacity >= 1, every item accepted into the buffer is    *)
(* eventually served and exits: the run ends with buffer_count = 0 and     *)
(* server_count = 0 and with as many ServerIncremented and                 *)
(* ServerDecremented events as BufferIncremented events.                   *)
(***************************************************************************)
C10_AcceptedItemsLeave ==
  (Lt(Zero, queue_state.server_capacity) /\ Lt(Zero, queue_state.buffer_count))
    ~> (/\ pc = "done"
        /\ queue_state.buffer_count = Zero
        /\ queue_state.server_count = Zero
        /\ Logged("ServerIncremented") = Logged("BufferIncremented")
        /\ Logged("ServerDecremented") = Logged("BufferIncremented"))

(***************************************************************************)
(* Vocabulary of the end-to-end scenarios.                                 *)
(***************************************************************************)
\* the number of calls of step so far (main's pushes are the other calls)
StepCalls == ops - Len(pushed)

\* scenario 2 under way or over: buffer capacity 0, the one seed Arrive@0
Scenario2 ==
  /\ pc \in {"run", "done"}
  /\ queue_state.buffer_capacity = Zero
  /\ pushed = <<Zero>>

(***************************************************************************)
(* C11 as stated: with buffer_capacity = 0 and the single seed Arrive@0    *)
(* the log stays empty and buffer_count stays 0, and the queue is empty    *)
(* after two messages were processed: the Arrive and a follow-up           *)
(* CallToServe@0.                                                          *)
(***************************************************************************)
C11_DiscardedAfterCallToServe ==
  Scenario2 =>
    /\ event_log.contents = <<>>
    /\ queue_state.buffer_count = Zero
    /\ pc = "done" => (emq.messages = <<>> /\ StepCalls = 3)
    /\ (StepCalls = 2 /\ pc = "run") =>
         popped = EventMessage("CallToServe", Zero)

(***************************************************************************)
(* C11 as amended: with buffer_capacity = 0 and the single seed Arrive@0   *)
(* the log stays empty and buffer_count stays 0, and the queue is empty    *)
(* as soon as the Arrive was processed: no CallToServe is ever scheduled,  *)
(* and the second call of step returns None.                               *)
(***************************************************************************)
C11_DiscardedWithoutFollowUp ==
  Scenario2 =>
    /\ event_log.contents = <<>>
    /\ event_log.size = Zero
    /\ queue_state.buffer_count = Zero
    /\ queue_state.server_count = Zero
    /\ emq.messages = <<>>
    /\ pc = "run" => (StepCalls = 1 /\ popped = EventMessage("Arrive", Zero))
    /\ pc = "done" => StepCalls = 2

\* scenario 2 is over
C11_Witness == Scenario2 /\ pc = "done" /\ op = "step" /\ popped = None

(***************************************************************************)
(* C12: with buffer_capacity = 5, server_capacity = 2, server_duration =   *)
(* 10 and the ten seeds Arrive@0 .. Arrive@9 the run ends with             *)
(* buffer_count = 0 and server_count = 0, and the log holds as many        *)
(* ServerIncremented as ServerDecremented as BufferIncremented events, at  *)
(* most 10 of each.                                                        *)
(***************************************************************************)
Scenario3Over ==
  /\ pc = "done"
  /\ queue_state.buffer_capacity = N(main_buffer_capacity)
  /\ queue_state.server_capacity = N(main_server_capacity)
  /\ queue_state.server_duration = N(main_server_duration)
  /\ pushed = [i \in 1 .. n_arrivals |-> N(i - 1)]

C12_MainRunDrains ==
  Scenario3Over =>
    /\ queue_state.buffer_count = Zero
    /\ queue_state.server_count = Zero
    /\ emq.messages = <<>>
    /\ Logged("ServerIncremented") = Logged("ServerDecremented")
    /\ Logged("ServerDecremented") = Logged("BufferIncremented")
    /\ Logged("BufferIncremented") <= n_arrivals

\* the run of main is over: seven arrivals were accepted and three refused
C12_Witness ==
  /\ Scenario3Over
  /\ Logged("BufferIncremented") = 7
  /\ Logged("ServerDecremented") = 7
  /\ queue_state.time = N(40)

(***************************************************************************)
(* C13: the event log is append-only: the log before a step is a prefix of *)
(* the log after it, the new events are those of the transition in the     *)
(* order it produced them, and the size field is the number of events.     *)
(***************************************************************************)
\* the events a step appended
Appended ==
  SubSeq(event_log'.contents, Len(event_log.contents) + 1,
         Len(event_log'.contents))

C13_LogAppendOnly ==
  [][/\ Len(event_log'.contents) >= Len(event_log.contents)
     /\ SubSeq(event_log'.contents, 1, Len(event_log.contents)) =
          event_log.contents
     /\ event_log.size = N(Len(event_log.contents))
     /\ event_log'.size = N(Len(event_log'.contents))
     /\ Appended # <<>> =>
          /\ op' = "step"
          /\ popped' # None
          /\ Appended \in
               {<<Event("BufferIncremented", popped'.time)>>,
                <<Event("BufferDecremented", popped'.time),
                  Event("ServerIncremented", popped'.time)>>,
                <<Event("ServerDecremented", popped'.time)>>}]_vars

\* a step has just appended two events to a log that held four
C13_Witness ==
  /\ op = "step"
  /\ popped # None
  /\ popped.event_message_type = "CallToServe"
  /\ Len(event_log.contents) = 6
  /\ event_log.size = N(6)
  /\ event_log.contents[5] = Event("BufferDecremented", popped.time)
  /\ event_log.contents[6] = Event("ServerIncremented", popped.time)

(***************************************************************************)
(* C14: the size field of the EventMessageQueue is the number of pending   *)
(* messages: a push adds exactly 1 to both, a pop on a non-empty queue     *)
(* takes exactly 1 from both, a pop on an empty queue leaves the size 0,   *)
(* and n pushes followed by n pops leave the queue empty with size 0.      *)
(***************************************************************************)
C14_SizeCountsPending ==
  [][/\ emq.size = N(Len(emq.messages))
     /\ emq'.size = N(Len(emq'.messages))
     /\ op' = "push" =>
          /\ Len(emq'.messages) = Len(emq.messages) + 1
          /\ emq'.size = AddU32(emq.size, One).val
     /\ (Pops /\ emq.messages # <<>>) =>
          /\ Len(emq'.messages) = Len(emq.messages) - 1
          /\ emq'.size = SubU32(emq.size, One).val
     /\ (Pops /\ emq.messages = <<>>) =>
          /\ emq'.messages = <<>>
          /\ emq'.size = Zero]_vars

\* two pushes and then two pops have emptied the queue
C14_Witness ==
  /\ op = "pop"
  /\ popped # None
  /\ ops = 4
  /\ Len(pushed) = 2
  /\ emq.messages = <<>>
  /\ emq.size = Zero

\* a pop has found the queue empty
C14_WitnessEmpty == op = "pop" /\ popped = None /\ emq.size = Zero

(***************************************************************************)
(* C16: no serve attempt is lost: in every state between steps of a run    *)
(* seeded with Arrive messages, if can_serve() holds then a CallToServe    *)
(* whose time is state.time is pending; hence no step moves the time to a  *)
(* strictly later instant while an item is buffered and a server is free.  *)
(***************************************************************************)
C16_ServeAttemptPending ==
  [][/\ can_serve(queue_state) =>
          /\ EventMessage("CallToServe", queue_state.time)
               \in Elements(emq.messages)
          /\ ~Lt(queue_state.time, queue_state'.time)
     /\ can_serve(queue_state') =>
          EventMessage("CallToServe", queue_state'.time)
            \in Elements(emq'.messages)]_vars

\* an item is buffered and a server is free right after an Exit, while a
\* later message is pending
C16_Witness ==
  /\ op = "step"
  /\ popped # None
  /\ popped.event_message_type = "Exit"
  /\ can_serve(queue_state)
  /\ \E i \in DOMAIN emq.messages : Lt(queue_state.time, emq.messages[i].time)

(***************************************************************************)
(* C17: the Exit scheduled by a successful CallToServe@t has the time      *)
(* t + server_duration computed in u32, and this time is later than or     *)
(* equal to t for every t and every server_duration, also where the sum    *)
(* reaches 2^32: the addition never wraps to an earlier time.              *)
(***************************************************************************)
C17_ExitNotBeforeCall ==
  [][(SteppedOn("CallToServe") /\ can_serve(queue_state)) =>
       \E i \in DOMAIN emq'.messages :
         /\ stamps'[i].id = ops
         /\ emq'.messages[i].event_message_type = "Exit"
         /\ Le(popped'.time, emq'.messages[i].time)]_vars

(***************************************************************************)
(* C18: in every state between steps of a run seeded with Arrive messages  *)
(* the number of pending Exit messages is server_count; so server_count    *)
(* >= 1 whenever an Exit is popped and the unguarded dec_server never      *)
(* goes below zero, and dec_buffer and the increments never leave their    *)
(* bounds either.                                                          *)
(***************************************************************************)
\* the number of pending messages of a type
Pending(q, type) ==
  Cardinality({i \in DOMAIN q.messages :
                 q.messages[i].event_message_type = type})

\* the program is between two calls (it has not aborted inside one)
BetweenSteps(p) == p \in {"seed", "run", "done"}

C18_ExitsMatchServers ==
  [][/\ BetweenSteps(pc) =>
          queue_state.server_count = N(Pending(emq, "Exit"))
     /\ BetweenSteps(pc') =>
          queue_state'.server_count = N(Pending(emq', "Exit"))
     /\ SteppedOn("Exit") =>
          /\ Lt(Zero, queue_state.server_count)
          /\ ~dec_server(queue_state).overflow
     /\ (SteppedOn("CallToServe") /\ can_serve(queue_state)) =>
          /\ ~dec_buffer(queue_state).overflow
          /\ ~inc_server(queue_state).overflow
          /\ Le(inc_server(queue_state).qs.server_count,
                queue_state.server_capacity)
     /\ (SteppedOn("Arrive") /\ can_buffer(queue_state)) =>
          /\ ~inc_buffer(queue_state).overflow
          /\ Le(inc_buffer(queue_state).qs.buffer_count,
                queue_state.buffer_capacity)]_vars

\* an Exit was just popped while two items were in service
C18_Witness ==
  /\ op = "step"
  /\ pc = "run"
  /\ popped # None
  /\ popped.event_message_type = "Exit"
  /\ queue_state.server_count = One
  /\ Pending(emq, "Exit") = 1
  /\ Lt(One, queue_state.server_capacity)

(***************************************************************************)
(* C19: the log accounts for the state: after any number of steps          *)
(* buffer_count is the number of BufferIncremented minus the number of     *)
(* BufferDecremented events, server_count is the number of                 *)
(* ServerIncremented minus the number of ServerDecremented events, and     *)
(* every event carries the state.time set by the step that appended it.    *)
(***************************************************************************)
LogAccounts(qs, log) ==
  LET n(type) ==
        Cardinality({i \in DOMAIN log.contents :
                       log.contents[i].event_type = type})
  IN  /\ n("BufferIncremented") >= n("BufferDecremented")
      /\ qs.buffer_count = N(n("BufferIncremented") - n("BufferDecremented"))
      /\ n("ServerIncremented") >= n("ServerDecremented")
      /\ qs.server_count = N(n("ServerIncremented") - n("ServerDecremented"))

C19_LogAccountsForState ==
  [][/\ BetweenSteps(pc) => LogAccounts(queue_state, event_log)
     /\ BetweenSteps(pc') =>
          /\ LogAccounts(queue_state', event_log')
          /\ \A i \in Len(event_log.contents) + 1 .. Len(event_log'.contents) :
               event_log'.contents[i].time = queue_state'.time]_vars

\* the log accounts for one waiting item and one item in service after a
\* step that logged an event at a time later than 0
C19_Witness ==
  /\ op = "step"
  /\ pc = "run"
  /\ queue_state.buffer_count = One
  /\ queue_state.server_count = One
  /\ Logged("ServerDecremented") >= 1
  /\ Lt(Zero, queue_state.time)
  /\ event_log.contents[Len(event_log.contents)].time = queue_state.time

(***************************************************************************)
(* C20: the CallToServe@t that a step schedules (after an accepted         *)
(* Arrive@t or an Exit@t) is the message the very next step pops, ahead of *)
(* every other pending message of time t, all pushed earlier: nothing is   *)
(* handled between a state-changing Arrive or Exit and its serve attempt.  *)
(***************************************************************************)
\* the last call was a step that handled an Arrive or an Exit and pushed a
\* follow-up (the push that call number ops - 1 made)
FollowUpScheduled ==
  /\ op = "step"
  /\ pc = "run"
  /\ popped # None
  /\ popped.event_message_type \in {"Arrive", "Exit"}
  /\ \E i \in DOMAIN stamps : stamps[i].id = ops - 1

C20_ServeAttemptIsNext ==
  [][FollowUpScheduled =>
       /\ op' = "step"
       /\ ops' = ops + 1
       /\ popped' = EventMessage("CallToServe", popped.time)
       /\ popped' = emq.messages[Len(emq.messages)]
       /\ stamps[Len(stamps)].id = ops - 1
       /\ \A i \in 1 .. Len(stamps) - 1 :
            /\ stamps[i].id < ops - 1
            /\ Le(popped.time, stamps[i].time)]_vars

\* the follow-up CallToServe@t was just popped although an Arrive@t, seeded
\* before the run, is still pending
C20_Witness ==
  /\ op = "step"
  /\ popped # None
  /\ popped.event_message_type = "CallToServe"
  /\ EventMessage("Arrive", popped.time) \in Elements(emq.messages)
  /\ event_log.contents # <<>>
  /\ event_log.contents[1].time = popped.time

====
